---- MODULE Spec2Model ----
(***************************************************************************)
(* Course management application (src/main.py): the catalog of courses and *)
(* plans kept as one value under the Redis key "courses", the PDF objects  *)
(* kept in the S3 bucket, the admin sessions kept as Redis keys with a     *)
(* time-to-live, and the HTTP handlers that read and write them.           *)
(*                                                                         *)
(* A request is a record req[p]; a handler runs as a sequence of steps,    *)
(* one per call to the catalog store or the blob store, so that the        *)
(* result of each remote call (success or failure) is an input of the      *)
(* step that makes it.                                                     *)
(***************************************************************************)
EXTENDS Integers, Sequences, FiniteSets, TLC

VARIABLES
    stored,     \* the catalog under the Redis key "courses" (decoded JSON)
    blobs,      \* the keys of the objects in the S3 bucket
    tmp,        \* the names of the files in temp_dir
    sessions,   \* Redis keys "session:<token>": token -> NoSession or entry
    now,        \* the clock of the session store, in seconds
    issued,     \* history: token -> time create_session returned it, or Never
    req         \* the requests: p -> the handler's locals and its response

vars == <<stored, blobs, tmp, sessions, now, issued, req>>

----------------------------------------------------------------------------
(* Bounds of the model *)

MaxCourses == 2
MaxPlans == 1
MaxTicks == 4
InitPlans == 2
FixPlans == 3
UndoPlans == 1
MaxName == 5

Titles == {"A", "B"}
Names == {"n"}
Keys == {"k1", "k2"}
Tokens == {"t1", "t2"}
Procs == {"p1", "p2"}
SeqProcs == {"p1"}

(* Program constants *)

None == "None"
NoSession == [value |-> None, expires |-> 0]
NoFile == [content_type |-> None, size |-> 0, filename |-> ""]
Never == 0 - 1
PdfType == "application/pdf"
ADMIN_EMAIL == "admin@example.org"
ADMIN_PASSWORD == "secret"
Emails == {ADMIN_EMAIL, "other@example.org"}
Passwords == {ADMIN_PASSWORD, "wrong"}
SessionTTL == 3600
max_retries == 3
MaxUploadBytes == 10 * 1024 * 1024
TimeStep == SessionTTL \div 3
MaxTime == MaxTicks * TimeStep

(* Index arguments: every value from -1 up to one past the largest list *)
IndexArgs(n) == (0 - 1) .. n

(* The files a multipart form can carry *)
UploadFiles ==
    { [content_type |-> PdfType, size |-> 2 * 1024 * 1024, filename |-> "a.pdf"],
      [content_type |-> PdfType, size |-> 0, filename |-> "a.pdf"],
      [content_type |-> PdfType, size |-> MaxUploadBytes + 1, filename |-> "a.pdf"],
      [content_type |-> "text/plain", size |-> 2 * 1024 * 1024, filename |-> "a.txt"],
      [content_type |-> PdfType, size |-> 2 * 1024 * 1024, filename |-> ""] }

FileArgs == {NoFile} \cup UploadFiles

(* The names a download can ask for: the storage keys, a name that is never *)
(* a key, and names that are not plain file names                          *)
OddNames == {"", ".", "..", "a/b"}
DownloadNames == Keys \cup {"k3"} \cup OddNames

(* The POST routes the application registers, and the two paths of the     *)
(* reorder operations, for which it registers none                         *)
PostRoutes ==
    {"/admin/login", "/add-course", "/edit-course", "/add-plan", "/edit-plan",
     "/delete-course", "/delete-plan"}
ReorderPaths == {"/update-plan-order", "/update-course-order"}

(* The index lists a reorder request can carry *)
Orders == UNION {[1 .. k -> 0 .. 2] : k \in 0 .. 3}

MutatingOps ==
    {"add_course", "edit_course", "delete_course", "add_plan", "edit_plan", "delete_plan"}

----------------------------------------------------------------------------
(* Catalog values and the pure parts of the handlers *)

Course(t, ps) == [title |-> t, plans |-> ps]
Plan(n, f) == [name |-> n, filename |-> f]

\* 0 <= index < len(list), the test every index-taking handler makes
InRange(i, n) == 0 <= i /\ i < n

\* list.pop(i) with a zero-based index
Pop(s, i) == [j \in 1 .. (Len(s) - 1) |-> IF j <= i THEN s[j] ELSE s[j + 1]]

\* get_courses: the decoded value of the key, [] when the store call raises
get_courses(cat, fail) == IF fail THEN <<>> ELSE cat

\* Faulty variant: the new course is put in front of the list
AppendCourse_in_front(courses, title) == <<Course(title, <<>>)>> \o courses

\* courses.append({"title": title, "plans": []})
AppendCourse(courses, title) == Append(courses, Course(title, <<>>))

\* Faulty variant: the course is replaced by a new record instead of having
\* its title assigned, which drops its plans
SetTitle_replacing(courses, ci, title) ==
    [courses EXCEPT ![ci + 1] = Course(title, <<>>)]

\* courses[course_index]["title"] = title
SetTitle(courses, ci, title) == [courses EXCEPT ![ci + 1].title = title]

\* courses[course_index]["plans"].append({"name": name, "filename": filename})
AppendPlan(courses, ci, name, filename) ==
    [courses EXCEPT ![ci + 1].plans = Append(@, Plan(name, filename))]

\* courses[course_index]["plans"][plan_index]["name"] = name
SetPlanName(courses, ci, pi, name) ==
    [courses EXCEPT ![ci + 1].plans[pi + 1].name = name]

\* courses[course_index]["plans"][plan_index]["filename"] = filename
SetPlanFile(courses, ci, pi, filename) ==
    [courses EXCEPT ![ci + 1].plans[pi + 1].filename = filename]

\* courses.pop(course_index)
PopCourse(courses, ci) == Pop(courses, ci)

\* courses[course_index]["plans"].pop(plan_index)
PopPlan(courses, ci, pi) == [courses EXCEPT ![ci + 1].plans = Pop(@, pi)]

\* Faulty variant: the 413 of an oversized file reaches the caller
add_plan_validate_413(file, readErr) ==
    IF file.content_type # PdfType THEN 400
    ELSE IF readErr THEN 400
    ELSE IF file.size > MaxUploadBytes THEN 413
    ELSE 0

\* add_plan's checks of the uploaded file, before the catalog is read: the
\* status it raises, 0 when the file passes. The 413 of an oversized file is
\* raised inside the try block and caught by its except clause, which raises
\* 400 in its place.
add_plan_validate(file, readErr) ==
    IF file.content_type # PdfType THEN 400
    ELSE IF readErr THEN 400
    ELSE IF file.size > MaxUploadBytes THEN 400
    ELSE 0

\* edit_plan's checks of the replacement file: they sit inside the handler's
\* try block, whose except clause turns every exception into a 500.
edit_plan_validate(file, readErr) ==
    IF file.content_type # PdfType THEN 500
    ELSE IF readErr THEN 500
    ELSE IF file.size > MaxUploadBytes THEN 500
    ELSE 0

\* Faulty variant: the deletion is skipped when the object exists
delete_from_s3_skipping(objs, key, fail) == objs

\* delete_from_s3: the bucket after the call; a failed remote call is
\* swallowed (the function returns False) and leaves the object
delete_from_s3(objs, key, fail) == IF fail THEN objs ELSE objs \ {key}

\* Faulty variant: the result of the existence check is not looked at
head_object_unchecked(objs, key, fail) == TRUE

\* s3.head_object(Key=s3_key) returns (instead of raising)
head_object(objs, key, fail) == ~fail /\ key \in objs

\* Faulty variant: the loop gives up one attempt later
LastAttempt_late(attempt) == attempt = max_retries

\* upload_to_s3's verification loop gives up after this attempt
LastAttempt(attempt) == attempt = max_retries - 1

----------------------------------------------------------------------------
(* sanitize_filename. A filename is a sequence of characters: "a" stands    *)
(* for a letter or digit, "?" for any character that is not a letter, a     *)
(* digit, "_", "-", " " or ".". The result is the sequence of the           *)
(* characters of the stem, "_", the unique id and the extension.            *)

Chars == {"a", "-", "_", " ", "?", "."}
LegalChars == {"a", "-", "_"}
UniqueIds == {"0a1b2c", "ffffff"}

\* The filenames of up to n characters
NamesUpTo(n) == UNION {[1 .. k -> Chars] : k \in 0 .. n}

\* name.rfind('.'), as a one-based position: 0 when there is no dot
rfind_dot(name) ==
    IF \E i \in DOMAIN name : name[i] = "."
    THEN CHOOSE i \in DOMAIN name :
             name[i] = "." /\ \A j \in DOMAIN name : name[j] = "." => j <= i
    ELSE 0

\* Path(filename).stem: the name without its suffix; a dot in the first or
\* in the last place starts no suffix
path_stem(name) ==
    IF 1 < rfind_dot(name) /\ rfind_dot(name) < Len(name)
    THEN SubSeq(name, 1, rfind_dot(name) - 1)
    ELSE name

\* stem.replace(' ', '_')
replace_spaces(stem) == [i \in DOMAIN stem |-> IF stem[i] = " " THEN "_" ELSE stem[i]]

\* re.sub(r'[^a-zA-Z0-9_-]', '', stem)
remove_illegal(stem) == SelectSeq(stem, LAMBDA c : c \in LegalChars)

\* re.sub(r'_+', '_', stem)
RECURSIVE collapse_underscores(_)
collapse_underscores(stem) ==
    IF Len(stem) < 2 THEN stem
    ELSE IF stem[1] = "_" /\ stem[2] = "_" THEN collapse_underscores(Tail(stem))
    ELSE <<stem[1]>> \o collapse_underscores(Tail(stem))

\* stem.strip('_')
RECURSIVE strip_underscores(_)
strip_underscores(stem) ==
    IF stem = <<>> THEN stem
    ELSE IF stem[1] = "_" THEN strip_underscores(Tail(stem))
    ELSE IF stem[Len(stem)] = "_" THEN strip_underscores(SubSeq(stem, 1, Len(stem) - 1))
    ELSE stem

\* Faulty variant: the runs of underscores are collapsed before the illegal
\* characters are removed
sanitize_stem_collapse_first(stem) ==
    LET cleaned == strip_underscores(remove_illegal(collapse_underscores(replace_spaces(stem))))
    IN  IF cleaned = <<>> THEN <<"file">> ELSE cleaned

\* The two re.sub calls, the strip and the fallback to "file"
sanitize_stem(stem) ==
    LET cleaned == strip_underscores(collapse_underscores(remove_illegal(replace_spaces(stem))))
    IN  IF cleaned = <<>> THEN <<"file">> ELSE cleaned

\* sanitize_filename(filename), unique_id being uuid.uuid4().hex[:6]; the
\* extension is ".pdf" whatever the suffix of the name
sanitize_filename(filename, unique_id) ==
    IF filename = <<>> THEN <<"unnamed_file", "_", unique_id, ".pdf">>
    ELSE sanitize_stem(path_stem(filename)) \o <<"_", unique_id, ".pdf">>

----------------------------------------------------------------------------
(* Sessions *)

\* Faulty variant: every password verifies
verify_any(password) == TRUE

\* pwd_context.verify(password, ADMIN_PASSWORD_HASH), the hash being that of
\* the configured password
verify(password) == password = ADMIN_PASSWORD

\* redis GET of "session:<token>": the value, None once the key has expired
redis_get(sess, clock, token) ==
    IF sess[token] # NoSession /\ clock < sess[token].expires
    THEN sess[token].value
    ELSE None

\* redis SETEX key ttl value
redis_setex(sess, clock, token, ttl, value) ==
    [sess EXCEPT ![token] = [value |-> value, expires |-> clock + ttl]]

\* redis DEL key
redis_delete(sess, token) == [sess EXCEPT ![token] = NoSession]

\* Faulty variant: a store error lets the request through (fail-open)
is_logged_in_fail_open(sess, clock, session_id, fail) ==
    IF session_id = None THEN FALSE
    ELSE IF fail THEN TRUE
    ELSE redis_get(sess, clock, session_id) = "logged_in"

\* is_logged_in(session_id): False for no cookie and when the store raises
is_logged_in(sess, clock, session_id, fail) ==
    IF session_id = None THEN FALSE
    ELSE IF fail THEN FALSE
    ELSE redis_get(sess, clock, session_id) = "logged_in"

\* Faulty variant: a successful check renews the key's time-to-live
is_logged_in_store_sliding(sess, clock, session_id, fail) ==
    IF session_id # None /\ ~fail /\ redis_get(sess, clock, session_id) = "logged_in"
    THEN [sess EXCEPT ![session_id].expires = clock + SessionTTL]
    ELSE sess

\* What a call of is_logged_in leaves in the session store: it only reads
is_logged_in_store(sess, clock, session_id, fail) == sess

----------------------------------------------------------------------------
(* Requests *)

IdleReq ==
    [op |-> None, pc |-> "idle", ci |-> 0, pi |-> 0, text |-> None, file |-> NoFile,
     courses |-> <<>>, key |-> None, attempt |-> 0, k |-> 0, status |-> 0,
     cookie |-> None, token |-> None, password |-> None, fail |-> FALSE,
     at |-> 0, pre |-> <<>>, preBlobs |-> {}, log |-> <<>>, with |-> {},
     fixed_count |-> 0, filename |-> <<>>, result |-> <<>>, order |-> <<>>]

\* The requests that have arrived and whose response is not yet delivered
InFlight == {q \in Procs : req[q].pc # "idle"}

\* A new request: its arguments, and the time, catalog and bucket it starts
\* from, and the requests of the other workers it overlaps with
NewReq(op, ci, pi, text, file) ==
    [IdleReq EXCEPT !.op = op, !.ci = ci, !.pi = pi, !.text = text, !.file = file,
                    !.at = now, !.pre = stored, !.preBlobs = blobs,
                    !.with = InFlight]

\* The worker slot p is free to take a request
Ready(p) == req[p].pc = "idle"

\* The handler returns or raises: the response status
Respond(r, status) == [r EXCEPT !.pc = "done", !.status = status]

Logged(r, event) == [r EXCEPT !.log = Append(@, event)]

\* The handler of the request has returned or raised
Done1(r) == r.pc = "done"

ReadEvent(fail) == IF fail THEN "getfail" ELSE "get"

Init ==
    /\ stored = <<>>
    /\ blobs = {}
    /\ tmp = {}
    /\ sessions = [t \in Tokens |-> NoSession]
    /\ now = 0
    /\ issued = [t \in Tokens |-> Never]
    /\ req = [p \in Procs |-> IdleReq]

----------------------------------------------------------------------------
(* POST /add-course *)

add_course(p) ==
    \E title \in Titles, rf \in BOOLEAN :
        LET courses == get_courses(stored, rf)
            r == Logged(NewReq("add_course", 0, 0, title, NoFile), ReadEvent(rf))
        IN  /\ Ready(p)
            /\ Len(courses) < MaxCourses
            /\ req' = [req EXCEPT ![p] =
                          [r EXCEPT !.pc = "write",
                                    !.courses = AppendCourse(courses, title)]]
            /\ UNCHANGED <<stored, blobs, tmp, sessions, now, issued>>

(* POST /edit-course *)

edit_course(p) ==
    \E ci \in IndexArgs(MaxCourses), title \in Titles, rf \in BOOLEAN :
        LET courses == get_courses(stored, rf)
            r == Logged(NewReq("edit_course", ci, 0, title, NoFile), ReadEvent(rf))
        IN  /\ Ready(p)
            /\ req' = [req EXCEPT ![p] =
                          IF InRange(ci, Len(courses))
                          THEN [r EXCEPT !.pc = "write",
                                         !.courses = SetTitle(courses, ci, title)]
                          ELSE Respond([r EXCEPT !.courses = courses], 404)]
            /\ UNCHANGED <<stored, blobs, tmp, sessions, now, issued>>

(* Faulty variant: a failed write is tried once more *)

save_courses_retrying(p) ==
    \E wf \in BOOLEAN :
        /\ req[p].pc = "write"
        /\ stored' = IF wf THEN stored ELSE req[p].courses
        /\ req' = [req EXCEPT ![p] =
                      IF wf /\ ~(\E i \in DOMAIN @.log : @.log[i] = "setfail")
                      THEN Logged(@, "setfail")
                      ELSE Respond(Logged(@, IF wf THEN "setfail" ELSE "set"),
                                   IF wf THEN 500 ELSE 303)]
        /\ UNCHANGED <<blobs, tmp, sessions, now, issued>>

(* save_courses, the last call of every mutating handler: it raises 500 when *)
(* the store call fails; add_plan and edit_plan catch that and raise 500.    *)

save_courses(p) ==
    \E wf \in BOOLEAN :
        /\ req[p].pc = "write"
        /\ stored' = IF wf THEN stored ELSE req[p].courses
        /\ req' = [req EXCEPT ![p] =
                      Respond(Logged(@, IF wf THEN "setfail" ELSE "set"),
                              IF wf THEN 500 ELSE 303)]
        /\ UNCHANGED <<blobs, tmp, sessions, now, issued>>

(* POST /add-plan: the checks of the file, the catalog read, the index test. *)
(* With a named file the handler goes on to the upload; without one it     *)
(* appends a plan with no filename.                                         *)

Named(file) == file # NoFile /\ file.filename # ""

add_plan(p) ==
    \E ci \in IndexArgs(MaxCourses), name \in Names, file \in FileArgs,
       readErr \in BOOLEAN, rf \in BOOLEAN :
        LET r0 == [NewReq("add_plan", ci, 0, name, file)
                      EXCEPT !.fail = file # NoFile /\ readErr]
            v == IF file = NoFile THEN 0 ELSE add_plan_validate(file, readErr)
            courses == get_courses(stored, rf)
            r == [Logged(r0, ReadEvent(rf)) EXCEPT !.courses = courses]
        IN  /\ Ready(p)
            /\ IF v # 0
               THEN req' = [req EXCEPT ![p] = Respond(r0, v)]
               ELSE IF ~InRange(ci, Len(courses))
               THEN req' = [req EXCEPT ![p] = Respond(r, 404)]
               ELSE /\ Len(courses[ci + 1].plans) < MaxPlans
                    /\ req' = [req EXCEPT ![p] =
                                  IF Named(file)
                                  THEN [r EXCEPT !.pc = "put"]
                                  ELSE [r EXCEPT !.pc = "write",
                                                 !.courses = AppendPlan(courses, ci, name, None)]]
            /\ UNCHANGED <<stored, blobs, tmp, sessions, now, issued>>

(* POST /edit-plan: the catalog read, the index tests, the new name, the    *)
(* checks of a replacement file.                                            *)

edit_plan(p) ==
    \E ci \in IndexArgs(MaxCourses), pi \in IndexArgs(MaxPlans), name \in Names,
       file \in FileArgs, readErr \in BOOLEAN, rf \in BOOLEAN :
        LET courses == get_courses(stored, rf)
            r == [Logged(NewReq("edit_plan", ci, pi, name, NoFile), ReadEvent(rf))
                      EXCEPT !.courses = courses]
        IN  /\ Ready(p)
            /\ req' = [req EXCEPT ![p] =
                  IF ~(InRange(ci, Len(courses))
                          /\ InRange(pi, Len(courses[ci + 1].plans)))
                  THEN Respond(r, 404)
                  ELSE LET renamed == SetPlanName(courses, ci, pi, name)
                           r1 == [r EXCEPT !.courses = renamed, !.file = file,
                                           !.fail = Named(file) /\ readErr]
                       IN  IF ~Named(file) THEN [r1 EXCEPT !.pc = "write"]
                           ELSE IF edit_plan_validate(file, readErr) # 0
                           THEN Respond(r1, edit_plan_validate(file, readErr))
                           ELSE IF renamed[ci + 1].plans[pi + 1].filename # None
                           THEN [r1 EXCEPT !.pc = "delold"]
                           ELSE [r1 EXCEPT !.pc = "put"]]
            /\ UNCHANGED <<stored, blobs, tmp, sessions, now, issued>>

(* edit_plan: delete_from_s3(old_filename), before the new file is uploaded; *)
(* the result of the call is not looked at.                                  *)

edit_plan_delete_old(p) ==
    \E df \in BOOLEAN :
        LET r == req[p]
            old == r.courses[r.ci + 1].plans[r.pi + 1].filename
        IN  /\ r.pc = "delold"
            /\ blobs' = delete_from_s3(blobs, old, df)
            /\ req' = [req EXCEPT ![p] =
                          [Logged(r, IF df THEN "delfail" ELSE "del") EXCEPT !.pc = "put"]]
            /\ UNCHANGED <<stored, tmp, sessions, now, issued>>

(* sanitize_filename, the temporary file, and upload_to_s3 up to its remote *)
(* upload call. The key's suffix is uuid4().hex[:6]: any value. An exception *)
(* of upload_to_s3 skips the handler's removal of the temporary file. The    *)
(* temporary file may be gone from temp_dir when os.path.exists looks for    *)
(* it (gone), or be empty: both raise before any remote call.                *)

upload_file(p) ==
    \E key \in Keys, pf \in BOOLEAN, gone \in BOOLEAN :
        LET r == [req[p] EXCEPT !.key = key]
        IN  /\ req[p].pc = "put"
            /\ IF gone
               THEN /\ tmp' = tmp \ {key}
                    /\ blobs' = blobs
                    /\ req' = [req EXCEPT ![p] = Respond(Logged(r, "nofile"), 500)]
               ELSE IF r.file.size = 0
               THEN /\ tmp' = IF r.op = "add_plan" THEN tmp \ {key} ELSE tmp \cup {key}
                    /\ blobs' = blobs
                    /\ req' = [req EXCEPT ![p] = Respond(r, 500)]
               ELSE IF pf
               THEN /\ tmp' = tmp \cup {key}
                    /\ blobs' = blobs
                    /\ req' = [req EXCEPT ![p] = Respond(Logged(r, "putfail"), 500)]
               ELSE /\ tmp' = tmp \cup {key}
                    /\ blobs' = blobs \cup {key}
                    /\ req' = [req EXCEPT ![p] =
                                  [Logged(r, "put") EXCEPT !.pc = "head", !.attempt = 0]]
            /\ UNCHANGED <<stored, sessions, now, issued>>

(* upload_to_s3's verification loop, one head_object per step; on success   *)
(* the handler removes the temporary file and records the key in its copy   *)
(* of the catalog.                                                          *)

HeadEvent(objs, key, fail) ==
    IF fail THEN "headfail" ELSE IF key \in objs THEN "head" ELSE "headmiss"

upload_verify(p) ==
    \E hf \in BOOLEAN :
        LET r == Logged(req[p], HeadEvent(blobs, req[p].key, hf))
        IN  /\ req[p].pc = "head"
            /\ IF head_object(blobs, r.key, hf)
               THEN /\ tmp' = tmp \ {r.key}
                    /\ req' = [req EXCEPT ![p] =
                          [r EXCEPT !.pc = "write",
                                    !.courses =
                                        IF r.op = "add_plan"
                                        THEN AppendPlan(r.courses, r.ci, r.text, r.key)
                                        ELSE SetPlanFile(r.courses, r.ci, r.pi, r.key)]]
               ELSE /\ tmp' = tmp
                    /\ req' = [req EXCEPT ![p] =
                          IF LastAttempt(r.attempt)
                          THEN Respond(r, 500)
                          ELSE [r EXCEPT !.attempt = @ + 1]]
            /\ UNCHANGED <<stored, blobs, sessions, now, issued>>

(* The handlers' try/except around delete_from_s3 *)

\* Faulty variant: a failed blob delete ends the request with a server error
AfterDelete_fatal(r, fail) ==
    IF fail THEN Respond(Logged(r, "delfail"), 500) ELSE Logged(r, "del")

\* delete_course and delete_plan log the result of delete_from_s3, whether
\* it returned False or raised, and go on
AfterDelete(r, fail) == Logged(r, IF fail THEN "delfail" ELSE "del")

(* POST /delete-course: the catalog read and the index test; then one       *)
(* delete_from_s3 per plan with a file, then courses.pop.                   *)

delete_course(p) ==
    \E ci \in IndexArgs(MaxCourses), rf \in BOOLEAN :
        LET courses == get_courses(stored, rf)
            r == [Logged(NewReq("delete_course", ci, 0, None, NoFile), ReadEvent(rf))
                      EXCEPT !.courses = courses]
        IN  /\ Ready(p)
            /\ req' = [req EXCEPT ![p] =
                  IF ~InRange(ci, Len(courses)) THEN Respond(r, 404)
                  ELSE IF Len(courses[ci + 1].plans) = 0
                  THEN [r EXCEPT !.pc = "write", !.courses = PopCourse(courses, ci)]
                  ELSE [r EXCEPT !.pc = "blob", !.k = 0]]
            /\ UNCHANGED <<stored, blobs, tmp, sessions, now, issued>>

delete_course_blob(p) ==
    \E df \in BOOLEAN :
        LET r == req[p]
            plans == r.courses[r.ci + 1].plans
            filename == plans[r.k + 1].filename
            r1 == IF filename = None THEN r ELSE AfterDelete(r, df)
        IN  /\ r.pc = "blob"
            /\ r.op = "delete_course"
            /\ blobs' = IF filename = None THEN blobs
                        ELSE delete_from_s3(blobs, filename, df)
            /\ req' = [req EXCEPT ![p] =
                  IF Done1(r1) THEN r1
                  ELSE IF r.k + 1 = Len(plans)
                  THEN [r1 EXCEPT !.pc = "write", !.k = @ + 1,
                                  !.courses = PopCourse(r.courses, r.ci)]
                  ELSE [r1 EXCEPT !.k = @ + 1]]
            /\ UNCHANGED <<stored, tmp, sessions, now, issued>>

(* POST /delete-plan *)

delete_plan(p) ==
    \E ci \in IndexArgs(MaxCourses), pi \in IndexArgs(MaxPlans), rf \in BOOLEAN :
        LET courses == get_courses(stored, rf)
            r == [Logged(NewReq("delete_plan", ci, pi, None, NoFile), ReadEvent(rf))
                      EXCEPT !.courses = courses]
        IN  /\ Ready(p)
            /\ req' = [req EXCEPT ![p] =
                  IF ~(InRange(ci, Len(courses))
                          /\ InRange(pi, Len(courses[ci + 1].plans)))
                  THEN Respond(r, 404)
                  ELSE IF courses[ci + 1].plans[pi + 1].filename = None
                  THEN [r EXCEPT !.pc = "write", !.courses = PopPlan(courses, ci, pi)]
                  ELSE [r EXCEPT !.pc = "blob"]]
            /\ UNCHANGED <<stored, blobs, tmp, sessions, now, issued>>

delete_plan_blob(p) ==
    \E df \in BOOLEAN :
        LET r == req[p]
            filename == r.courses[r.ci + 1].plans[r.pi + 1].filename
        IN  /\ r.pc = "blob"
            /\ r.op = "delete_plan"
            /\ blobs' = delete_from_s3(blobs, filename, df)
            /\ req' = [req EXCEPT ![p] =
                  IF Done1(AfterDelete(r, df)) THEN AfterDelete(r, df)
                  ELSE [AfterDelete(r, df)
                           EXCEPT !.pc = "write",
                                  !.courses = PopPlan(r.courses, r.ci, r.pi)]]
            /\ UNCHANGED <<stored, tmp, sessions, now, issued>>

(* GET /download/{filename}: the validation of the name; download_from_s3's *)
(* existence check; its download into the temporary file; the response,    *)
(* whose temporary file is removed when the response is closed. Every      *)
(* exception of download_from_s3 ends in the handler's except clause, which *)
(* removes the file at the temporary path, if there is one, and raises     *)
(* HTTPException(500). The temporary path is temp_dir/filename.            *)

\* not filename or ".." in filename or "/" in filename
\* The characters of a requested name
Spelling(filename) ==
    CASE filename = "" -> <<>>
      [] filename = "." -> <<".">>
      [] filename = ".." -> <<".", ".">>
      [] filename = "a/b" -> <<"a", "/", "b">>
      [] filename = "k1" -> <<"k", "1">>
      [] filename = "k2" -> <<"k", "2">>
      [] filename = "k3" -> <<"k", "3">>

\* sub in s
Contains(s, sub) ==
    \E i \in 1 .. (Len(s) - Len(sub) + 1) : SubSeq(s, i, i + Len(sub) - 1) = sub

invalid_filename(filename) ==
    LET s == Spelling(filename)
    IN  s = <<>> \/ Contains(s, <<".", ".">>) \/ Contains(s, <<"/">>)

\* os.path.join(temp_dir, filename) names an entry of temp_dir: the name is
\* one path component, and not the directory itself (".") or its parent
DirectChild(filename) ==
    LET s == Spelling(filename)
    IN  s # <<>> /\ ~Contains(s, <<"/">>) /\ s \notin {<<".">>, <<".", ".">>}

download_pdf(p) ==
    \E filename \in DownloadNames :
        LET r == [NewReq("download", 0, 0, None, NoFile) EXCEPT !.key = filename]
        IN  /\ Ready(p)
            /\ req' = [req EXCEPT ![p] =
                          IF invalid_filename(filename) THEN Respond(r, 400)
                          ELSE [r EXCEPT !.pc = "dlhead"]]
            /\ UNCHANGED <<stored, blobs, tmp, sessions, now, issued>>

download_from_s3_head(p) ==
    \E hf \in BOOLEAN :
        LET r == Logged(req[p], HeadEvent(blobs, req[p].key, hf))
        IN  /\ req[p].pc = "dlhead"
            /\ tmp' = IF head_object(blobs, r.key, hf) THEN tmp ELSE tmp \ {r.key}
            /\ req' = [req EXCEPT ![p] =
                          IF head_object(blobs, r.key, hf)
                          THEN [r EXCEPT !.pc = "dlget"]
                          ELSE Respond(r, 500)]
            /\ UNCHANGED <<stored, blobs, sessions, now, issued>>

\* s3.download_file: it fails (gf), also when the object has gone since the
\* check; a temporary file left by a failed download is removed by the
\* handler's except clause
download_from_s3_file(p) ==
    \E gf \in BOOLEAN :
        LET r == req[p]
            failed == gf \/ r.key \notin blobs
        IN  /\ r.pc = "dlget"
            /\ tmp' = IF failed THEN tmp \ {r.key} ELSE tmp \cup {r.key}
            /\ req' = [req EXCEPT ![p] =
                          IF failed THEN Respond(Logged(r, "getobjfail"), 500)
                          ELSE [Logged(r, "getobj") EXCEPT !.pc = "send"]]
            /\ UNCHANGED <<stored, blobs, sessions, now, issued>>

\* The file response has been sent and closed: cleanup_temp_file
download_close(p) ==
    /\ req[p].pc = "send"
    /\ tmp' = tmp \ {req[p].key}
    /\ req' = [req EXCEPT ![p] = Respond(@, 200)]
    /\ UNCHANGED <<stored, blobs, sessions, now, issued>>

(* POST to a path with no route: the router raises the 404 that            *)
(* custom_http_exception_handler renders; no handler runs.                 *)

post_unrouted(p) ==
    /\ Ready(p)
    /\ \E path \in ReorderPaths \ PostRoutes, ci \in IndexArgs(MaxCourses),
          order \in Orders :
           req' = [req EXCEPT ![p] =
                      Respond([NewReq(path, ci, 0, None, NoFile) EXCEPT !.order = order],
                              404)]
    /\ UNCHANGED <<stored, blobs, tmp, sessions, now, issued>>

(* A call of sanitize_filename, as add_plan and edit_plan make it *)

sanitize(p) ==
    /\ Ready(p)
    /\ \E filename \in NamesUpTo(MaxName), unique_id \in UniqueIds :
           req' = [req EXCEPT ![p] =
                      Respond([NewReq("sanitize_filename", 0, 0, None, NoFile)
                                  EXCEPT !.filename = filename,
                                         !.result = sanitize_filename(filename, unique_id)],
                              0)]
    /\ UNCHANGED <<stored, blobs, tmp, sessions, now, issued>>

(* The response has been sent: the slot takes the next request *)

finish(p) ==
    /\ req[p].pc = "done"
    /\ req' = [q \in Procs |->
                  IF q = p THEN IdleReq ELSE [req[q] EXCEPT !.with = @ \ {p}]]
    /\ UNCHANGED <<stored, blobs, tmp, sessions, now, issued>>

----------------------------------------------------------------------------
(* POST /admin/login: with the admin's credentials, create_session stores   *)
(* "session:<uuid4>" for SessionTTL seconds; an exception of the store call *)
(* is logged and the token is returned all the same.                        *)

admin_login_post(p) ==
    \E email \in Emails, password \in Passwords, sf \in BOOLEAN :
        LET r == [NewReq("login", 0, 0, email, NoFile) EXCEPT !.password = password]
        IN  /\ Ready(p)
            /\ IF email = ADMIN_EMAIL /\ verify(password)
               THEN \E t \in Tokens :
                        /\ issued[t] = Never
                        /\ sessions' = IF sf THEN sessions
                                       ELSE redis_setex(sessions, now, t, SessionTTL, "logged_in")
                        /\ issued' = [issued EXCEPT ![t] = now]
                        /\ req' = [req EXCEPT ![p] =
                                      Respond([r EXCEPT !.token = t, !.fail = sf], 303)]
               ELSE /\ req' = [req EXCEPT ![p] = Respond(r, 401)]
                    /\ UNCHANGED <<sessions, issued>>
            /\ UNCHANGED <<stored, blobs, tmp, now>>

(* GET /logout: deletes the cookie's session key; an exception of the store *)
(* call is logged and the redirect is sent all the same.                    *)

admin_logout(p) ==
    \E cookie \in {None} \cup Tokens, sf \in BOOLEAN :
        LET r == [NewReq("logout", 0, 0, None, NoFile) EXCEPT !.cookie = cookie, !.fail = sf]
        IN  /\ Ready(p)
            /\ sessions' = IF cookie = None \/ sf THEN sessions
                           ELSE redis_delete(sessions, cookie)
            /\ req' = [req EXCEPT ![p] = Respond(r, 303)]
            /\ UNCHANGED <<stored, blobs, tmp, now, issued>>

(* GET /admin: the page (200) for a cookie that is_logged_in accepts, the   *)
(* redirect to the login page (303) otherwise.                              *)

admin_dashboard(p) ==
    \E cookie \in {None} \cup Tokens, sf \in BOOLEAN, rf \in BOOLEAN :
        LET r == [NewReq("admin", 0, 0, None, NoFile) EXCEPT !.cookie = cookie, !.fail = sf]
        IN  /\ Ready(p)
            /\ req' = [req EXCEPT ![p] =
                  IF ~is_logged_in(sessions, now, cookie, sf)
                  THEN Respond(r, 303)
                  ELSE Respond([Logged(r, ReadEvent(rf))
                                   EXCEPT !.courses = get_courses(stored, rf)], 200)]
            /\ sessions' = is_logged_in_store(sessions, now, cookie, sf)
            /\ UNCHANGED <<stored, blobs, tmp, now, issued>>

(* Time passes in the session store *)

tick ==
    /\ now + TimeStep <= MaxTime
    /\ now' = now + TimeStep
    /\ UNCHANGED <<stored, blobs, tmp, sessions, issued, req>>

----------------------------------------------------------------------------
(* The catalog: requests handled one after the other *)

Next ==
    \E p \in SeqProcs :
        \/ add_course(p)
        \/ edit_course(p)
        \/ add_plan(p)
        \/ edit_plan(p)
        \/ edit_plan_delete_old(p)
        \/ upload_file(p)
        \/ upload_verify(p)
        \/ delete_course(p)
        \/ delete_course_blob(p)
        \/ delete_plan(p)
        \/ delete_plan_blob(p)
        \/ save_courses(p)
        \/ finish(p)

Spec == Init /\ [][Next]_vars

(* The sessions: logins, logouts, admin page requests and the passing of time *)

SessionNext ==
    \/ \E p \in SeqProcs :
           \/ admin_login_post(p)
           \/ admin_logout(p)
           \/ admin_dashboard(p)
           \/ finish(p)
    \/ tick

SessionSpec == Init /\ [][SessionNext]_vars

(* GET /fix-mismatched-files: the catalog read; the listing of the bucket   *)
(* and the removal of the plans whose file is not listed; the catalog      *)
(* write when a plan was removed. Every outcome is returned as a JSON body *)
(* (status 200): "error" or "success" with fixed_count.                    *)

\* Faulty variant: the plans without a file are removed too
plans_to_remove_unfiled(plans, s3_files) ==
    {i \in 0 .. (Len(plans) - 1) : plans[i + 1].filename \notin s3_files}

\* plans_to_remove: the indices i with filename and filename not in s3_files
plans_to_remove(plans, s3_files) ==
    {i \in 0 .. (Len(plans) - 1) :
        plans[i + 1].filename # None /\ plans[i + 1].filename \notin s3_files}

\* for i in reversed(plans_to_remove): course["plans"].pop(i)
RECURSIVE PopReversed(_, _)
PopReversed(plans, indices) ==
    IF indices = {} THEN plans
    ELSE LET i == CHOOSE x \in indices : \A y \in indices : y <= x
         IN  PopReversed(Pop(plans, i), indices \ {i})

\* The loop over the courses: the catalog after it
RemoveMismatched(courses, s3_files) ==
    [c \in DOMAIN courses |->
        [courses[c] EXCEPT !.plans =
            PopReversed(@, plans_to_remove(@, s3_files))]]

\* The loop over the courses: fixed_count after it
RECURSIVE CountMismatched(_, _)
CountMismatched(courses, s3_files) ==
    IF courses = <<>> THEN 0
    ELSE Cardinality(plans_to_remove(Head(courses).plans, s3_files))
             + CountMismatched(Tail(courses), s3_files)

fix_mismatched_files(p) ==
    \E rf \in BOOLEAN :
        /\ Ready(p)
        /\ req' = [req EXCEPT ![p] =
                      [Logged(NewReq("fix_mismatched_files", 0, 0, None, NoFile),
                              ReadEvent(rf))
                          EXCEPT !.courses = get_courses(stored, rf), !.pc = "list"]]
        /\ UNCHANGED <<stored, blobs, tmp, sessions, now, issued>>

list_objects_v2(p) ==
    \E lf \in BOOLEAN :
        LET r == req[p]
            n == CountMismatched(r.courses, blobs)
        IN  /\ r.pc = "list"
            /\ req' = [req EXCEPT ![p] =
                  IF lf THEN Respond([Logged(r, "listfail") EXCEPT !.text = "error"], 200)
                  ELSE IF n > 0
                  THEN [Logged(r, "list")
                           EXCEPT !.courses = RemoveMismatched(r.courses, blobs),
                                  !.fixed_count = n, !.pc = "fixwrite"]
                  ELSE Respond([Logged(r, "list") EXCEPT !.text = "success"], 200)]
            /\ UNCHANGED <<stored, blobs, tmp, sessions, now, issued>>

fix_mismatched_files_save(p) ==
    \E wf \in BOOLEAN :
        /\ req[p].pc = "fixwrite"
        /\ stored' = IF wf THEN stored ELSE req[p].courses
        /\ req' = [req EXCEPT ![p] =
                      Respond([Logged(@, IF wf THEN "setfail" ELSE "set")
                                  EXCEPT !.text = IF wf THEN "error" ELSE "success"],
                              200)]
        /\ UNCHANGED <<blobs, tmp, sessions, now, issued>>

(* Deletions, from any catalog of up to MaxCourses courses with up to       *)
(* InitPlans plans in all, and any set of objects in the bucket            *)

\* The lists of m plans
PlanLists(m) == [1 .. m -> {Plan(n, f) : n \in Names, f \in {None} \cup Keys}]

RECURSIVE TotalPlans(_)
TotalPlans(cat) ==
    IF cat = <<>> THEN 0 ELSE Len(Head(cat).plans) + TotalPlans(Tail(cat))

\* The catalogs of k courses with at most n plans in all
RECURSIVE CatalogsOf(_, _)
CatalogsOf(k, n) ==
    IF k = 0 THEN {<<>>}
    ELSE UNION {{<<Course(t, ps)>> \o rest :
                    t \in Titles, ps \in PlanLists(m), rest \in CatalogsOf(k - 1, n - m)} :
                m \in 0 .. n}

Catalogs(n) == UNION {CatalogsOf(k, n) : k \in 0 .. MaxCourses}

InitAny(n) ==
    /\ stored \in Catalogs(n)
    /\ blobs \in SUBSET Keys
    /\ tmp = {}
    /\ sessions = [t \in Tokens |-> NoSession]
    /\ now = 0
    /\ issued = [t \in Tokens |-> Never]
    /\ req = [p \in Procs |-> IdleReq]

DeleteNext ==
    \E p \in SeqProcs :
        \/ delete_course(p)
        \/ delete_course_blob(p)
        \/ delete_plan(p)
        \/ delete_plan_blob(p)
        \/ save_courses(p)
        \/ finish(p)

DeleteSpec == InitAny(InitPlans) /\ [][DeleteNext]_vars

(* Reconciliation, from any catalog of up to MaxCourses courses with up to  *)
(* FixPlans plans in all, and any set of objects in the bucket             *)

FixNext ==
    \E p \in SeqProcs :
        \/ fix_mismatched_files(p)
        \/ list_objects_v2(p)
        \/ fix_mismatched_files_save(p)
        \/ finish(p)

FixSpec == InitAny(FixPlans) /\ [][FixNext]_vars

(* Downloads between the requests that delete objects, from any catalog    *)
(* and any set of objects in the bucket                                    *)

DownloadNext ==
    \E p \in SeqProcs :
        \/ delete_course(p)
        \/ delete_course_blob(p)
        \/ delete_plan(p)
        \/ delete_plan_blob(p)
        \/ edit_plan(p)
        \/ edit_plan_delete_old(p)
        \/ upload_file(p)
        \/ upload_verify(p)
        \/ save_courses(p)
        \/ download_pdf(p)
        \/ download_from_s3_head(p)
        \/ download_from_s3_file(p)
        \/ download_close(p)
        \/ finish(p)

DownloadSpec == InitAny(InitPlans) /\ [][DownloadNext]_vars

(* Plan deletions, from any catalog of up to MaxCourses courses with up to  *)
(* FixPlans plans in all                                                   *)

DeletePlanNext ==
    \E p \in SeqProcs :
        \/ delete_plan(p)
        \/ delete_plan_blob(p)
        \/ save_courses(p)
        \/ finish(p)

DeletePlanSpec == InitAny(FixPlans) /\ [][DeletePlanNext]_vars

(* Reorder requests, from any catalog of up to MaxCourses courses with up   *)
(* to InitPlans plans in all                                               *)

ReorderNext == \E p \in SeqProcs : post_unrouted(p) \/ finish(p)

ReorderSpec == InitAny(InitPlans) /\ [][ReorderNext]_vars

(* Calls of sanitize_filename on every filename of up to MaxName characters *)

SanitizeNext == \E p \in SeqProcs : sanitize(p) \/ finish(p)

SanitizeSpec == Init /\ [][SanitizeNext]_vars

(* Deletions next to additions and edits of plans: the handlers run in     *)
(* several worker processes, each step of a handler (catalog read, blob    *)
(* call, catalog write) interleaved with the steps of the other's. One     *)
(* worker takes a deletion, the other an addition or an edit.              *)

UndoNext ==
    \/ \E p \in SeqProcs :
           \/ delete_course(p)
           \/ delete_course_blob(p)
           \/ delete_plan(p)
           \/ delete_plan_blob(p)
    \/ \E p \in Procs \ SeqProcs :
           \/ add_plan(p)
           \/ edit_plan(p)
           \/ edit_plan_delete_old(p)
           \/ upload_file(p)
           \/ upload_verify(p)
    \/ \E p \in Procs : save_courses(p)

\* A catalog with at most n plans and the bucket holding exactly its files
InitFiled(n) ==
    /\ stored \in Catalogs(n)
    /\ blobs = UNION {{stored[i].plans[j].filename : j \in DOMAIN stored[i].plans} :
                         i \in DOMAIN stored} \ {None}
    /\ tmp = {}
    /\ sessions = [t \in Tokens |-> NoSession]
    /\ now = 0
    /\ issued = [t \in Tokens |-> Never]
    /\ req = [p \in Procs |-> IdleReq]

UndoSpec == InitFiled(UndoPlans) /\ [][UndoNext]_vars

(* Downloads served by two workers at the same time: both use the          *)
(* temporary path temp_dir/filename                                        *)

DownloadPairNext ==
    \E p \in Procs :
        \/ download_pdf(p)
        \/ download_from_s3_head(p)
        \/ download_from_s3_file(p)
        \/ download_close(p)
        \/ finish(p)

DownloadPairSpec == InitFiled(UndoPlans) /\ [][DownloadPairNext]_vars

(* Two workers (uvicorn's workers option) serving add_course requests at   *)
(* the same time against the one catalog store                             *)

ConcNext ==
    \E p \in Procs :
        \/ add_course(p)
        \/ save_courses(p)
        \/ finish(p)

ConcSpec == Init /\ [][ConcNext]_vars

----------------------------------------------------------------------------
(* Properties *)

Done(p) == req[p].pc = "done"
Quiescent == \A p \in Procs : req[p].pc \in {"idle", "done"}

Has(log, e) == \E i \in DOMAIN log : log[i] = e
Before(log, a, b) == \E i, j \in DOMAIN log : i < j /\ log[i] = a /\ log[j] = b
FailedHeads(log) == Cardinality({i \in DOMAIN log : log[i] \in {"headfail", "headmiss"}})
BlobEvents == {"del", "delfail", "put", "putfail", "head", "headfail", "headmiss"}
NoBlobOp(log) == \A i \in DOMAIN log : log[i] \notin BlobEvents

\* The upload of the request failed: the remote call, or every existence check
UploadFailed(r) == Has(r.log, "putfail") \/ FailedHeads(r.log) = max_retries

\* Some call to the catalog store or an upload of the request failed
StoreFailed(r) == Has(r.log, "getfail") \/ Has(r.log, "setfail") \/ UploadFailed(r)

\* No token at all is logged in
NoLiveSession == \A t \in Tokens : ~is_logged_in(sessions, now, t, FALSE)

\* The request's indices, judged against the catalog it started from
OutOfRange(r) ==
    \/ ~InRange(r.ci, Len(r.pre))
    \/ /\ r.op \in {"edit_plan", "delete_plan"}
       /\ ~InRange(r.pi, Len(r.pre[r.ci + 1].plans))

\* add_plan's file is one that its checks reject
Rejected(r) ==
    /\ r.file # NoFile
    /\ (r.file.content_type # PdfType \/ r.fail \/ r.file.size > MaxUploadBytes)

Filenames(cat) ==
    UNION {{cat[i].plans[j].filename : j \in DOMAIN cat[i].plans} : i \in DOMAIN cat}
        \ {None}

\* C1: a mutating operation completed while no token is logged in (so that
\* the request can carry none) has changed neither the stored catalog nor the
\* blob store.
C1_AuthRequired ==
    \A p \in Procs :
        (Done(p) /\ req[p].op \in MutatingOps /\ NoLiveSession)
            => (stored = req[p].pre /\ blobs = req[p].preBlobs)

\* C2: a mutating operation on a catalog that holds courses, during which the
\* catalog read, the catalog write or the upload failed, ends with a server
\* error and leaves the stored catalog equal to its value before the operation
\* (a failed read is not written back as an empty catalog).
C2_FailureKeepsCatalog ==
    \A p \in Procs :
        (Done(p) /\ req[p].op \in MutatingOps /\ StoreFailed(req[p])
                 /\ Len(req[p].pre) > 0)
            => (stored = req[p].pre /\ req[p].status >= 500)

\* C3: in add_plan with a file, the catalog write that records the key comes
\* after a successful upload and a successful existence check of that key, the
\* object is then in the blob store, and a request whose upload or whose
\* verification failed ends in a server error without any catalog write.
C3_UploadBeforeRecord ==
    \A p \in Procs :
        LET r == req[p]
        IN  (r.op = "add_plan" /\ Named(r.file))
                => /\ (r.pc = "write" \/ Has(r.log, "set") \/ Has(r.log, "setfail"))
                        => (Before(r.log, "put", "head") /\ r.key \in blobs)
                   /\ (Done(p) /\ r.status = 303)
                        => \E j \in DOMAIN stored[r.ci + 1].plans :
                               /\ stored[r.ci + 1].plans[j].filename = r.key
                               /\ r.key \in blobs
                   /\ (Done(p) /\ UploadFailed(r))
                        => /\ r.status = 500
                           /\ ~Has(r.log, "set")
                           /\ stored = r.pre

\* C3 witness: an add_plan whose object was uploaded but whose three existence
\* checks failed has ended in a server error with the catalog as it was.
C3_Witness ==
    \E p \in Procs :
        /\ Done(p) /\ req[p].op = "add_plan"
        /\ Has(req[p].log, "put") /\ FailedHeads(req[p].log) = max_retries
        /\ req[p].status = 500 /\ stored = req[p].pre /\ Len(stored) > 0

\* C4: an edit_plan that deleted the old object did so after its catalog
\* write: whenever a completed edit_plan has deleted the old object, the
\* catalog write recording the new key came before.
C4_DeleteAfterWrite ==
    \A p \in Procs :
        (Done(p) /\ req[p].op = "edit_plan")
            => \A i \in DOMAIN req[p].log :
                   req[p].log[i] = "del"
                       => \E j \in DOMAIN req[p].log : j < i /\ req[p].log[j] = "set"

\* C5: whenever no operation is in progress, every filename a plan of the
\* stored catalog refers to is the key of an object in the blob store.
C5_ReferentialIntegrity ==
    Quiescent => Filenames(stored) \subseteq blobs

C7_EditCourseFrame ==
    \A p \in Procs :
        LET r == req[p]
        IN  (Done(p) /\ r.op = "edit_course" /\ InRange(r.ci, Len(r.pre)))
                => /\ Len(stored) = Len(r.pre)
                   /\ \A j \in DOMAIN stored :
                          /\ stored[j].plans = r.pre[j].plans
                          /\ (j # r.ci + 1 => stored[j].title = r.pre[j].title)
                   /\ (r.status = 303 => stored[r.ci + 1].title = r.text)
                   /\ (r.status # 303 => stored = r.pre)

\* C7 witness: a successful edit_course gave a new title to a course that has
\* a plan, in a catalog of two courses.
C7_Witness ==
    \E p \in Procs :
        /\ Done(p) /\ req[p].op = "edit_course" /\ req[p].status = 303
        /\ Len(req[p].pre) = 2
        /\ req[p].pre[req[p].ci + 1].title # req[p].text
        /\ req[p].pre[req[p].ci + 1].plans # <<>>
        /\ stored[req[p].ci + 1].title = req[p].text

\* The request p is answered in this step
Answered(p) == req[p].pc = "idle" /\ req'[p].pc = "done"

\* The session key of the token is in the store, unexpired, with the value
\* create_session writes
Live(sess, clock, token) ==
    /\ token \in Tokens
    /\ sess[token] # NoSession
    /\ clock < sess[token].expires
    /\ sess[token].value = "logged_in"

\* C8: right after a login has returned a token, is_logged_in of it is true;
\* right after a logout with a token, is_logged_in of it is false; a token
\* that create_session never returned is not logged in.
C8_SessionLifecycle ==
    /\ [][\A p \in Procs :
            Answered(p) =>
                /\ (req'[p].op = "login" /\ req'[p].token # None)
                       => is_logged_in(sessions', now', req'[p].token, FALSE)
                /\ (req'[p].op = "logout" /\ req'[p].cookie # None)
                       => ~is_logged_in(sessions', now', req'[p].cookie, FALSE)]_vars
    /\ [](\A t \in Tokens : issued[t] = Never => ~is_logged_in(sessions, now, t, FALSE))

\* C9: a request for the admin page is answered with the page exactly when
\* its cookie names a session key that is in the store with the value
\* "logged_in" and the store call succeeded; otherwise, and in particular
\* when the store call failed, it is redirected to the login page.
C9_FailClosed ==
    [][\A p \in Procs :
          (Answered(p) /\ req'[p].op = "admin")
              => LET ok == ~req'[p].fail /\ Live(sessions, now, req'[p].cookie)
                 IN  /\ is_logged_in(sessions, now, req'[p].cookie, req'[p].fail) = ok
                     /\ req'[p].status = (IF ok THEN 200 ELSE 303)]_vars

\* C9 witness: a request carrying the token of a live session was redirected
\* to the login page because the session store failed.
C9_Witness ==
    \E p \in Procs :
        /\ Done(p) /\ req[p].op = "admin" /\ req[p].fail
        /\ Live(sessions, now, req[p].cookie)
        /\ req[p].at = now
        /\ req[p].status = 303

\* C10: a session key, while in the store, expires SessionTTL after the time
\* create_session wrote it, however many checks were made, and the token is
\* logged in exactly until then; a step that writes a session key or changes
\* its expiry is a login creating that token.
C10_NoRefresh ==
    /\ [](\A t \in Tokens :
            sessions[t] # NoSession
                => /\ issued[t] # Never
                   /\ sessions[t].expires = issued[t] + SessionTTL
                   /\ is_logged_in(sessions, now, t, FALSE) = (now < issued[t] + SessionTTL))
    /\ [][\A t \in Tokens :
            (sessions'[t] # sessions[t] /\ sessions'[t] # NoSession)
                => /\ sessions[t] = NoSession
                   /\ \E p \in Procs :
                          Answered(p) /\ req'[p].op = "login" /\ req'[p].token = t]_vars

\* C10 witness: a request for the admin page made exactly SessionTTL after its
\* token was issued, the key never having been deleted, is redirected to the
\* login page.
C10_Witness ==
    \E p \in Procs, t \in Tokens :
        /\ sessions[t] # NoSession
        /\ now = issued[t] + SessionTTL
        /\ Done(p) /\ req[p].op = "admin" /\ req[p].cookie = t /\ ~req[p].fail
        /\ req[p].at = now
        /\ req[p].status = 303

\* C11: a login is answered with the redirect and a session cookie exactly
\* when its email is the admin address and its password is the configured
\* one; with any mismatch it is answered 401, sets no cookie and leaves the
\* session store as it was; and a step that writes a session key is such a
\* login with the right credentials.
C11_LoginCredentials ==
    /\ [][\A p \in Procs :
            (Answered(p) /\ req'[p].op = "login")
                => IF req'[p].text = ADMIN_EMAIL /\ req'[p].password = ADMIN_PASSWORD
                   THEN req'[p].status = 303 /\ req'[p].token \in Tokens
                   ELSE /\ req'[p].status = 401
                        /\ req'[p].token = None
                        /\ sessions' = sessions
                        /\ issued' = issued]_vars
    /\ [][\A t \in Tokens :
            (sessions'[t] # sessions[t] /\ sessions'[t] # NoSession)
                => \E p \in Procs :
                       /\ Answered(p) /\ req'[p].op = "login"
                       /\ req'[p].text = ADMIN_EMAIL
                       /\ req'[p].password = ADMIN_PASSWORD
                       /\ req'[p].token = t]_vars

\* C11 witness: a login with the admin address and a wrong password was
\* answered 401 without a cookie, no session being in the store.
C11_Witness ==
    \E p \in Procs :
        /\ Done(p) /\ req[p].op = "login"
        /\ req[p].text = ADMIN_EMAIL /\ req[p].password # ADMIN_PASSWORD
        /\ req[p].status = 401 /\ req[p].token = None
        /\ \A t \in Tokens : sessions[t] = NoSession

\* The add_course requests p and q, one of which arrived before the response
\* of the other was delivered, have both been answered and none of their
\* store calls failed
BothAdded(p, q) ==
    /\ p # q /\ Done(p) /\ Done(q)
    /\ (q \in req[p].with \/ p \in req[q].with)
    /\ req[p].op = "add_course" /\ req[q].op = "add_course"
    /\ ~StoreFailed(req[p]) /\ ~StoreFailed(req[q])

\* C12: two add_course requests in progress at the same time, whose store
\* calls all succeed and of which the second read the catalog the first read
\* (or that catalog with the first's course: no third request wrote in
\* between), are both answered with the redirect, and the stored catalog is
\* then the catalog the first of them read, followed by one of the two new
\* courses or by both (in either order).
C12_LostUpdate ==
    \A p, q \in Procs :
        LET base == req[p].pre
            a == Course(req[p].text, <<>>)
            b == Course(req[q].text, <<>>)
        IN  (BothAdded(p, q) /\ req[q].pre \in {base, base \o <<a>>})
            =>     /\ req[p].status = 303 /\ req[q].status = 303
                   /\ stored \in {base \o <<a>>, base \o <<b>>,
                                  base \o <<a, b>>, base \o <<b, a>>}

\* C12 witness: the lost update. Two add_course requests with different
\* titles read the same non-empty catalog, both were answered with the
\* redirect, and the stored catalog holds only one of the two new courses.
C12_Witness ==
    \E p, q \in Procs :
        /\ BothAdded(p, q)
        /\ req[p].pre = req[q].pre /\ Len(req[p].pre) > 0
        /\ req[p].text # req[q].text
        /\ req[p].status = 303 /\ req[q].status = 303
        /\ stored = req[p].pre \o <<Course(req[q].text, <<>>)>>

\* The number of blob deletes the request made, failed ones included
Deletes(log) == Cardinality({i \in DOMAIN log : log[i] \in {"del", "delfail"}})

\* The plans of the list that have a file
WithFile(plans) == {j \in DOMAIN plans : plans[j].filename # None}

\* C13: a delete_plan or delete_course with valid indices during which a blob
\* delete failed, the catalog read and write succeeding, is answered with the
\* redirect and leaves the catalog it read without the plan (without the
\* course); and a delete_course that read the catalog has made one blob
\* delete for every plan of the course that has a file, whichever of them
\* failed.
C13_DeleteNonFatal ==
    \A p \in Procs :
        LET r == req[p]
        IN  (Done(p) /\ r.op \in {"delete_plan", "delete_course"}
                     /\ ~OutOfRange(r) /\ ~Has(r.log, "getfail"))
                => /\ (Has(r.log, "delfail") /\ ~Has(r.log, "setfail"))
                        => /\ r.status = 303
                           /\ stored = IF r.op = "delete_plan"
                                       THEN PopPlan(r.pre, r.ci, r.pi)
                                       ELSE PopCourse(r.pre, r.ci)
                   /\ r.op = "delete_course"
                        => Deletes(r.log) = Cardinality(WithFile(r.pre[r.ci + 1].plans))

\* C13 witness: a delete_course of a course with two files, in a catalog of
\* two courses, whose first blob delete failed and whose second succeeded,
\* was answered with the redirect and removed the course.
C13_Witness ==
    \E p \in Procs :
        LET r == req[p]
        IN  /\ Done(p) /\ r.op = "delete_course" /\ r.status = 303
            /\ Len(r.pre) = 2 /\ InRange(r.ci, 2)
            /\ Cardinality(WithFile(r.pre[r.ci + 1].plans)) = 2
            /\ Before(r.log, "delfail", "del")
            /\ stored = PopCourse(r.pre, r.ci)

\* The request carries a named file of the wrong content type
WrongType(r) == Named(r.file) /\ r.file.content_type # PdfType

\* The request carries a named PDF file, read without error, that is too big
Oversize(r) ==
    /\ Named(r.file) /\ r.file.content_type = PdfType
    /\ ~r.fail /\ r.file.size > MaxUploadBytes

\* C14: an add_plan or edit_plan whose file has the wrong content type is
\* answered 400, one whose file exceeds 10 MB is answered 413, and in both
\* cases no blob store call and no catalog write was made.
C14_ValidationStatus ==
    \A p \in Procs :
        LET r == req[p]
        IN  (Done(p) /\ r.op \in {"add_plan", "edit_plan"}
                     /\ (WrongType(r) \/ Oversize(r)))
                => /\ r.status = IF WrongType(r) THEN 400 ELSE 413
                   /\ NoBlobOp(r.log)
                   /\ ~Has(r.log, "set") /\ ~Has(r.log, "setfail")
                   /\ stored = r.pre /\ blobs = r.preBlobs

\* C15: once an add_plan or edit_plan is answered, whatever its outcome, the
\* temporary file it wrote (named by its storage key) is no longer in the
\* temporary directory.
C15_TempFileRemoved ==
    \A p \in Procs :
        (Done(p) /\ req[p].op \in {"add_plan", "edit_plan"} /\ req[p].key # None)
            => req[p].key \notin tmp

\* The number of catalog writes the request made, failed ones included
Writes(log) == Cardinality({i \in DOMAIN log : log[i] \in {"set", "setfail"}})

\* C16: a mutating operation makes at most one catalog write, after which it
\* makes no other call to the catalog store or the blob store; an operation
\* answered with the redirect has made exactly one successful write and an
\* operation answered with an error has written nothing; and the stored
\* catalog changes only in the step of such a write, to the catalog the
\* request holds.
C16_SingleWrite ==
    /\ [](\A p \in Procs :
            LET r == req[p]
            IN  r.op \in MutatingOps
                    => /\ Writes(r.log) <= 1
                       /\ \A i \in DOMAIN r.log :
                              r.log[i] \in {"set", "setfail"} => i = Len(r.log)
                       /\ Writes(r.log) = 1 => Done(p)
                       /\ (Done(p) /\ r.status = 303) => Has(r.log, "set")
                       /\ (Done(p) /\ r.status # 303)
                              => (~Has(r.log, "set") /\ r.status >= 400))
    /\ [][stored' # stored
             => \E p \in Procs :
                    /\ req'[p].log = Append(req[p].log, "set")
                    /\ req'[p].status = 303
                    /\ stored' = req[p].courses]_vars

\* C16 witness: an edit_plan that deleted the old object, uploaded the new
\* one and then failed to write the catalog was answered with an error, the
\* failed write being the last of its calls and the catalog as it was.
C16_Witness ==
    \E p \in Procs :
        LET r == req[p]
        IN  /\ Done(p) /\ r.op = "edit_plan" /\ r.status = 500
            /\ Before(r.log, "del", "put") /\ Before(r.log, "head", "setfail")
            /\ r.log[Len(r.log)] = "setfail"
            /\ stored = r.pre

\* The plans of the list whose file is absent or listed, in their order
Kept(plans, listing) ==
    SelectSeq(plans, LAMBDA pl : pl.filename = None \/ pl.filename \in listing)

\* The catalog with the same courses and titles and only the kept plans
Reconciled(cat, listing) ==
    [c \in DOMAIN cat |->
        [title |-> cat[c].title, plans |-> Kept(cat[c].plans, listing)]]

\* C17: after fix_mismatched_files, when the catalog read, the listing and
\* the catalog write (if any) succeeded, the stored catalog has the courses
\* and titles of the previous one and exactly its plans whose filename is
\* null or listed, in their order, and the fixed count is the number of plans
\* removed; when the listing failed the catalog is unchanged and an error is
\* returned. (When the catalog write failed the catalog is unchanged and an
\* error is returned; when the catalog read failed the catalog is unchanged.)
C17_Reconcile ==
    \A p \in Procs :
        LET r == req[p]
            listing == r.preBlobs
        IN  (Done(p) /\ r.op = "fix_mismatched_files")
                => /\ ~StoreFailed(r) /\ ~Has(r.log, "listfail")
                        => /\ stored = Reconciled(r.pre, listing)
                           /\ r.text = "success"
                           /\ r.fixed_count = TotalPlans(r.pre) - TotalPlans(stored)
                   /\ Has(r.log, "listfail") => (stored = r.pre /\ r.text = "error")
                   /\ Has(r.log, "setfail") => (stored = r.pre /\ r.text = "error")
                   /\ Has(r.log, "getfail") => stored = r.pre

\* C17 witness: a course of three plans, the first and the last with a
\* listed file (or none) and the middle one with an unlisted file, was
\* reconciled: the middle plan is gone, the other two remain in their order.
C17_Witness ==
    \E p \in Procs :
        LET r == req[p]
        IN  /\ Done(p) /\ r.op = "fix_mismatched_files" /\ r.text = "success"
            /\ r.fixed_count = 1
            /\ Len(r.pre) > 0 /\ Len(r.pre[1].plans) = 3
            /\ r.pre[1].plans[1].filename \in r.preBlobs
            /\ r.pre[1].plans[2].filename \notin r.preBlobs \cup {None}
            /\ r.pre[1].plans[3].filename = None
            /\ stored[1].plans = <<r.pre[1].plans[1], r.pre[1].plans[3]>>

\* C18: a download of a valid name whose object is not in the bucket (the
\* existence check found none) is answered 404, not the 500 of a failed
\* remote call, and leaves no temporary file of that name.
C18_DownloadNotFound ==
    \A p \in Procs :
        (Done(p) /\ req[p].op = "download" /\ Has(req[p].log, "headmiss"))
            => (req[p].status = 404 /\ req[p].key \notin tmp)

\* The filename without its extension: the part before the last dot, when
\* that dot is neither the first nor the last character
OriginalStem(name) ==
    IF \E i \in 2 .. (Len(name) - 1) :
           name[i] = "." /\ \A j \in (i + 1) .. Len(name) : name[j] # "."
    THEN SubSeq(name, 1,
                (CHOOSE i \in 2 .. (Len(name) - 1) :
                     name[i] = "." /\ \A j \in (i + 1) .. Len(name) : name[j] # ".") - 1)
    ELSE name

\* The positions of the letters, digits and hyphens of a sequence, in order
Solid(s) == SelectSeq([i \in DOMAIN s |-> i], LAMBDA i : s[i] \in {"a", "-"})

\* A space or an underscore stands between the k-th and the next solid
\* character
Gap(s, k) ==
    \E i \in DOMAIN s :
        Solid(s)[k] < i /\ i < Solid(s)[k + 1] /\ s[i] \in {"_", " "}

\* t is s with spaces replaced by underscores, the illegal characters
\* removed, the runs of underscores collapsed and the underscores at both
\* ends trimmed: t has legal characters only, no two underscores in a row and
\* none at its ends, the solid characters of s in their order, and an
\* underscore between two of them exactly where s has a space or an
\* underscore between them
Cleaned(s, t) ==
    /\ \A i \in DOMAIN t : t[i] \in LegalChars
    /\ \A i \in 1 .. (Len(t) - 1) : ~(t[i] = "_" /\ t[i + 1] = "_")
    /\ t # <<>> => (t[1] # "_" /\ t[Len(t)] # "_")
    /\ Len(Solid(t)) = Len(Solid(s))
    /\ \A k \in DOMAIN Solid(s) : t[Solid(t)[k]] = s[Solid(s)[k]]
    /\ \A k \in 1 .. (Len(Solid(s)) - 1) : Gap(t, k) <=> Gap(s, k)

\* C19: for a non-empty filename the result of sanitize_filename is a stem,
\* "_", the six-character id and ".pdf", where the stem is the cleaned stem
\* of the filename, or "file" when nothing is left of it.
C19_SanitizeFilename ==
    \A p \in Procs :
        LET r == req[p]
            n == Len(r.result)
            stem == SubSeq(r.result, 1, n - 3)
        IN  (Done(p) /\ r.op = "sanitize_filename" /\ r.filename # <<>>)
                => /\ n > 3
                   /\ r.result[n] = ".pdf"
                   /\ r.result[n - 1] \in UniqueIds
                   /\ r.result[n - 2] = "_"
                   /\ IF Solid(OriginalStem(r.filename)) = <<>>
                      THEN stem = <<"file">>
                      ELSE Cleaned(OriginalStem(r.filename), stem)

\* C19 witness: a filename with a space and an illegal character between
\* underscores has been sanitized to two characters joined by one underscore.
C19_Witness ==
    \E p \in Procs :
        /\ Done(p) /\ req[p].op = "sanitize_filename"
        /\ req[p].filename = <<"a", " ", "?", "_", "-">>
        /\ req[p].result = <<"a", "_", "-", "_", "ffffff", ".pdf">>

\* The list a reorder request is about: the courses, or the plans of the
\* course at its index
Reordered(r) ==
    IF r.op = "/update-course-order" THEN r.pre ELSE r.pre[r.ci + 1].plans

\* order is a permutation of [0 .. n-1]
IsPermutation(order, n) ==
    /\ Len(order) = n
    /\ \A i \in 0 .. (n - 1) : \E j \in DOMAIN order : order[j] = i

\* The list with the element of index order[j] in place j
Permuted(list, order) == [j \in DOMAIN order |-> list[order[j] + 1]]

\* C20: a reorder request about a list of two or more elements whose index
\* list has not the length of that list is answered with a validation error (400) and leaves the catalog
\* unchanged; one whose index list is a permutation of [0 .. n-1] is accepted
\* (303) and leaves the list in the order the permutation gives, so that the
\* inverse permutation restores it.
C20_Reorder ==
    \A p \in Procs :
        LET r == req[p]
        IN  (Done(p) /\ r.op \in ReorderPaths
                     /\ (r.op = "/update-plan-order" => InRange(r.ci, Len(r.pre)))
                     /\ Len(Reordered(r)) >= 2)
                => /\ Len(r.order) # Len(Reordered(r))
                        => (r.status = 400 /\ stored = r.pre)
                   /\ IsPermutation(r.order, Len(Reordered(r)))
                        => /\ r.status = 303
                           /\ IF r.op = "/update-course-order"
                              THEN stored = Permuted(r.pre, r.order)
                              ELSE stored =
                                       [r.pre EXCEPT ![r.ci + 1].plans =
                                           Permuted(@, r.order)]

\* The list without its element of (zero-based) index i
RemoveAt(list, i) == SubSeq(list, 1, i) \o SubSeq(list, i + 2, Len(list))

\* The request is a delete_plan that read the catalog and whose indices name
\* a plan with a file
DeletesFiledPlan(r) ==
    /\ r.op = "delete_plan" /\ ~Has(r.log, "getfail") /\ ~OutOfRange(r)
    /\ r.pre[r.ci + 1].plans[r.pi + 1].filename # None

\* C21: a delete_plan on a plan with a file makes its blob delete before its
\* catalog write; when the blob delete succeeded and the request is answered
\* with the redirect, the plan's object is not in the blob store and the
\* stored catalog is the previous one with that plan taken out of its
\* course's list, the other plans in their order.
C21_DeletePlanOrder ==
    \A p \in Procs :
        LET r == req[p]
            filename == r.pre[r.ci + 1].plans[r.pi + 1].filename
        IN  DeletesFiledPlan(r)
                => /\ (r.pc = "write" \/ Writes(r.log) > 0) => Deletes(r.log) = 1
                   /\ \A i, j \in DOMAIN r.log :
                          (r.log[i] \in {"del", "delfail"} /\ r.log[j] \in {"set", "setfail"})
                              => i < j
                   /\ (Done(p) /\ r.status = 303) => Writes(r.log) = 1
                   /\ (Done(p) /\ r.status = 303 /\ Has(r.log, "del"))
                          => /\ filename \notin blobs
                             /\ stored = [r.pre EXCEPT ![r.ci + 1].plans = RemoveAt(@, r.pi)]

\* C21 witness: the middle plan of a course of three plans, whose object was
\* in the blob store, has been deleted: the object is gone and the first and
\* the last plan remain.
C21_Witness ==
    \E p \in Procs :
        LET r == req[p]
        IN  /\ Done(p) /\ r.status = 303 /\ DeletesFiledPlan(r) /\ Has(r.log, "del")
            /\ r.pi = 1 /\ Len(r.pre[r.ci + 1].plans) = 3
            /\ r.pre[r.ci + 1].plans[2].filename \in r.preBlobs
            /\ r.pre[r.ci + 1].plans[2].filename \notin blobs
            /\ r.pre[r.ci + 1].plans[1] # r.pre[r.ci + 1].plans[3]
            /\ stored[r.ci + 1].plans = <<r.pre[r.ci + 1].plans[1], r.pre[r.ci + 1].plans[3]>>

\* The number of existence checks the request made after its upload
Heads(log) ==
    Cardinality({i \in DOMAIN log : log[i] \in {"head", "headfail", "headmiss"}})

\* upload_to_s3 has returned True to the handler of the request
UploadSucceeded(r) == r.pc = "write" \/ Writes(r.log) > 0

\* C22: in a request that reached upload_to_s3, the upload is reported as
\* successful only after the remote upload call succeeded and an existence
\* check succeeded, at most three checks having been made; the request ends
\* in a server error with no remote call when the local file is missing or
\* empty, with no existence check when the remote upload call failed, and
\* after exactly three checks when they all failed; a request whose upload
\* did not succeed never goes on to the catalog write; and no request makes
\* more than three checks.
C22_UploadVerified ==
    \A p \in Procs :
        LET r == req[p]
        IN  (r.op \in {"add_plan", "edit_plan"} /\ r.key # None)
                => /\ Heads(r.log) <= max_retries
                   /\ UploadSucceeded(r)
                          => /\ Before(r.log, "put", "head")
                             /\ FailedHeads(r.log) < max_retries
                   /\ (Done(p) /\ (Has(r.log, "nofile") \/ r.file.size = 0))
                          => /\ r.status = 500
                             /\ ~Has(r.log, "put") /\ ~Has(r.log, "putfail")
                             /\ Heads(r.log) = 0
                   /\ (Done(p) /\ Has(r.log, "putfail"))
                          => (r.status = 500 /\ Heads(r.log) = 0)
                   /\ (Done(p) /\ ~Has(r.log, "head"))
                          => /\ r.status = 500 /\ Writes(r.log) = 0
                             /\ (Has(r.log, "put") => FailedHeads(r.log) = max_retries)
                   /\ (r.pc = "head") => FailedHeads(r.log) < max_retries

\* C22 witness: an upload whose first two existence checks failed and whose
\* third succeeded was reported as successful and its key recorded.
C22_Witness ==
    \E p \in Procs :
        LET r == req[p]
        IN  /\ Done(p) /\ r.op = "edit_plan" /\ r.status = 303
            /\ FailedHeads(r.log) = max_retries - 1 /\ Heads(r.log) = max_retries
            /\ Before(r.log, "headfail", "head")
            /\ stored[r.ci + 1].plans[r.pi + 1].filename = r.key

\* C23: no two plans of the stored catalog have the same non-null filename.
C23_UniqueKeys ==
    \A c1, c2 \in DOMAIN stored :
        \A j1 \in DOMAIN stored[c1].plans, j2 \in DOMAIN stored[c2].plans :
            (<<c1, j1>> # <<c2, j2>> /\ stored[c1].plans[j1].filename # None)
                => stored[c1].plans[j1].filename # stored[c2].plans[j2].filename

\* The successful deletion r: its catalog write went through
Deleted(r) ==
    /\ Done1(r) /\ r.op \in {"delete_course", "delete_plan"}
    /\ r.status = 303 /\ Has(r.log, "set")

\* The catalog cat, written by the add_plan or edit_plan request w that read
\* the catalog the deletion r read, holds what r removed again: it has as
\* many courses (delete_course), or, next to the plan w added, as many
\* plans (delete_plan), as the catalog had before the deletion
Restored(r, w, cat) ==
    IF r.op = "delete_course" THEN Len(cat) >= Len(r.pre)
    ELSE TotalPlans(cat) >= TotalPlans(r.pre) + (IF w.op = "add_plan" THEN 1 ELSE 0)

\* C24: when an add_plan or edit_plan request that read the catalog before
\* an overlapping deletion wrote it writes the catalog after the deletion
\* has completed successfully, the catalog it writes does not hold the
\* deleted course or plan again.
C24_DeletionNotUndone ==
    [][\A p, q \in Procs :
          (/\ p # q /\ Deleted(req[p])
           /\ req[q].op \in {"add_plan", "edit_plan"}
           /\ (q \in req[p].with \/ p \in req[q].with)
           /\ req[q].pre = req[p].pre
           /\ req[q].pc = "write" /\ Done1(req'[q]) /\ Has(req'[q].log, "set"))
          => ~Restored(req[p], req[q], stored')]_vars

\* The request is between the download of its temporary file and the close
\* of its response: the handler checks the file, then the response reads it
Serving(r) == r.op = "download" /\ r.pc = "send"

\* C25: while a download request checks or serves its temporary file, the
\* file is there: no other request's cleanup has removed it.
C25_DownloadsIsolated == \A q \in Procs : Serving(req[q]) => req[q].key \in tmp

\* The download request has acted on its temporary path: it has called the
\* blob store, after which it writes the file or looks for it and removes it
Touched(r) == r.op = "download" /\ r.log # <<>>

\* A download request with an invalid name is answered 400 in its first step,
\* with no blob store call made
RejectedEarly ==
    \A p \in Procs :
        (req[p].op = "download" /\ invalid_filename(req[p].key))
            => Done(p) /\ req[p].status = 400 /\ req[p].log = <<>>

\* C26: a download request whose name is empty or contains ".." or "/" is
\* answered 400 with no blob store call and no change of the temporary
\* files, and every temporary path a download request acts on is a direct
\* child of the temporary directory.
C26_DownloadPathInside ==
    /\ []RejectedEarly
    /\ [][\A p \in Procs :
             (req'[p] # req[p] /\ req'[p].op = "download"
                 /\ invalid_filename(req'[p].key))
                 => tmp' = tmp /\ blobs' = blobs]_vars
    /\ [](\A p \in Procs : Touched(req[p]) => DirectChild(req[p].key))

====
